---- MODULE Spec2Model ----
(***************************************************************************)
(* Model of the resilient fetch of zora-gen-art: the module-level rate     *)
(* limiter (checkRateLimit), the retry loop of fetchFirstMintedArtwork and *)
(* the HTTP handler that calls it.                                         *)
(* JavaScript runs each callback to completion, so one action is the code  *)
(* between two awaits of one call.                                         *)
(***************************************************************************)
EXTENDS Integers, Sequences, FiniteSets

\* ------------------------------------------------------------- constants

RATE_LIMIT_WINDOW == 60000

MAX_REQUESTS_PER_WINDOW == 30

DefaultMaxRetries == 3

\* ---------------------------------------------------------------- bounds

\* Date.now() when the module is loaded; lastRequestTime starts at 0, far in
\* the past of any real clock.
StartTime == 100000

\* The clock is observed up to StartTime + Horizon: long enough for a window
\* to pass (60001 ms) and for the longest waits of four retries after it
\* (5000, 5000, 8000 and 16000 ms).
Horizon == 100000

\* maxRetries is drawn from 0..MaxRetriesBound.
MaxRetriesBound == 3

\* Concurrent fetchFirstMintedArtwork calls in SpecConcurrent.
NumCallers == 2

MaxNow == StartTime + Horizon

VARIABLES
    now,              \* Date.now()
    requestCount,     \* module variable, line 57
    lastRequestTime,  \* module variable, line 58
    calls,            \* per caller: the frame of its fetchFirstMintedArtwork call
    postsInWindow,    \* history: axios.post calls since the window was last reset
    ret,              \* history: what the last direct checkRateLimit call returned
    grantLog,         \* history: the times at which direct calls returned true
    request           \* the frame of the HTTP handler (src/api/index.ts)

vars ==
    <<now, requestCount, lastRequestTime, calls, postsInWindow, ret, grantLog,
      request>>

\* ---------------------------------------------------------- rate limiter

WindowPassed_inclusive(lrt, t) == t - lrt >= RATE_LIMIT_WINDOW

\* The window has passed at time t (line 69).
WindowPassed(lrt, t) == t - lrt > RATE_LIMIT_WINDOW

QuotaReached_off(rc) == rc > MAX_REQUESTS_PER_WINDOW

QuotaReached_never(rc) == FALSE

\* The quota test of line 75.
QuotaReached(rc) == rc >= MAX_REQUESTS_PER_WINDOW

checkRateLimit_countsRefused(rc, lrt, t) ==
    LET reset == WindowPassed(lrt, t)
        rc1   == IF reset THEN 0 ELSE rc
    IN  [ret |-> ~QuotaReached(rc1),
         reset |-> reset,
         requestCount |-> rc1 + 1,
         lastRequestTime |-> IF reset THEN t ELSE lrt]

\* checkRateLimit() called at time t with the module variables (rc, lrt):
\* what it returns and what it leaves in the module variables.
checkRateLimit(rc, lrt, t) ==
    LET reset == WindowPassed(lrt, t)
        rc1   == IF reset THEN 0 ELSE rc
        lrt1  == IF reset THEN t ELSE lrt
    IN  [ret |-> ~QuotaReached(rc1),
         reset |-> reset,
         requestCount |-> IF QuotaReached(rc1) THEN rc1 ELSE rc1 + 1,
         lastRequestTime |-> lrt1]

\* timeToWait of line 108, computed at time t.
timeToWait(lrt, t) == RATE_LIMIT_WINDOW - (t - lrt)

\* setTimeout(resolve, ms): Node runs a timer whose delay is below 1 after 1 ms.
TimerDelay(ms) == IF ms < 1 THEN 1 ELSE ms

\* sleep(ms) called at time t: the earliest time at which it resolves.
sleep(ms, t) == t + TimerDelay(ms)

\* ------------------------------------------------------------ JS values

JsString(s) == [type |-> "string", str |-> s, num |-> 0]

JsNumber(n) == [type |-> "number", str |-> "", num |-> n]

JsUndefined == [type |-> "undefined", str |-> "", num |-> 0]

\* An array: what req.query holds for a parameter given more than once.
JsArray == [type |-> "object", str |-> "", num |-> 0]

\* JavaScript truthiness of a value: !v is its negation.
Truthy(v) ==
    CASE v.type = "string" -> v.str # ""
      [] v.type = "number" -> v.num # 0
      [] v.type = "object" -> TRUE
      [] OTHER -> FALSE

ValidAddress_anyString(a) == a.type = "string"

\* The negation of the test of line 102: !address || typeof address !== "string".
ValidAddress(a) == Truthy(a) /\ a.type = "string"

\* The addresses a caller passes: strings, one of them empty, and values that
\* are not strings.
Addresses ==
    {JsString("0xA1"), JsString("0xB2"), JsString(""), JsNumber(42), JsUndefined}

\* ------------------------------------------------- text (strings the code parses)

\* A text is the sequence of its characters.
IsDigit(ch) == ch \in {"0", "1", "2", "3", "4", "5", "6", "7", "8", "9"}

DigitValue(ch) ==
    CASE ch = "0" -> 0 [] ch = "1" -> 1 [] ch = "2" -> 2 [] ch = "3" -> 3
      [] ch = "4" -> 4 [] ch = "5" -> 5 [] ch = "6" -> 6 [] ch = "7" -> 7
      [] ch = "8" -> 8 [] ch = "9" -> 9

\* The length of the run of digits of s that starts at position i.
RECURSIVE DigitRun(_, _)
DigitRun(s, i) ==
    IF i <= Len(s) /\ IsDigit(s[i]) THEN 1 + DigitRun(s, i + 1) ELSE 0

\* The decimal value of the digits s[i .. i + n - 1].
RECURSIVE DecimalValue(_, _, _)
DecimalValue(s, i, n) ==
    IF n = 0 THEN 0
    ELSE 10 * DecimalValue(s, i, n - 1) + DigitValue(s[i + n - 1])

\* text s holds the text t at position i.
HasAt(s, t, i) ==
    /\ i >= 1
    /\ i + Len(t) - 1 <= Len(s)
    /\ \A k \in 1..Len(t) : s[i + k - 1] = t[k]

TryAgainAfter ==
    <<"t", "r", "y", " ", "a", "g", "a", "i", "n", " ",
      "a", "f", "t", "e", "r", " ">>

Seconds == <<" ", "s", "e", "c", "o", "n", "d", "s">>

\* The capture (\d+\.?\d*) of the pattern of line 173 tried at position i of s:
\* where it starts, its integer digits, whether a point follows, its fraction
\* digits, and whether " seconds" follows it.
CaptureAt(s, i) ==
    LET from  == i + Len(TryAgainAfter)
        whole == DigitRun(s, from)
        dot   == from + whole <= Len(s) /\ s[from + whole] = "."
        fstart == from + whole + (IF dot THEN 1 ELSE 0)
        frac  == DigitRun(s, fstart)
    IN  [from |-> from, whole |-> whole, fstart |-> fstart, frac |-> frac,
         ok |-> /\ HasAt(s, TryAgainAfter, i)
                /\ whole >= 1
                /\ HasAt(s, Seconds, fstart + frac)]

\* detail.match(/try again after (\d+\.?\d*) seconds/) finds a match.
DetailMatches(s) == \E i \in 1..Len(s) : CaptureAt(s, i).ok

\* parseFloat(detailMatch[1]) * 1000 for the leftmost match, in whole
\* milliseconds (a timer drops the fraction of a millisecond).
DetailMillis(s) ==
    LET i == CHOOSE k \in 1..Len(s) :
                 CaptureAt(s, k).ok /\ \A j \in 1..(k - 1) : ~CaptureAt(s, j).ok
        c == CaptureAt(s, i)
        f(k) == IF k <= c.frac THEN DigitValue(s[c.fstart + k - 1]) ELSE 0
    IN  DecimalValue(s, c.from, c.whole) * 1000 + 100 * f(1) + 10 * f(2) + f(3)

\* parseInt(header) of a header that starts with a digit: the value of its
\* leading digits.
parseInt(s) == DecimalValue(s, 1, DigitRun(s, 1))

\* A string-valued field that may be missing: error.response.data?.detail,
\* error.response.headers["retry-after"].
NoText == [present |-> FALSE, chars |-> <<>>]

Text(chars) == [present |-> TRUE, chars |-> chars]

\* JavaScript truthiness of such a field: present and not the empty string.
TruthyText(t) == t.present /\ t.chars # <<>>

\* --------------------------------------------------- the GraphQL envelope

MaxEdges == 2

Uris == {"ipfs://abc", "ipfs://xyz"}

\* One element of edges. depth counts the links present on the way from the
\* element to its downloadableUri: 0 for a null element, 1 for an element with
\* no node, 2 for a node with no media, 3 for media with no previewImage, 4 for
\* a previewImage with no inner previewImage, 5 for an inner previewImage with
\* no downloadableUri, 6 when downloadableUri is there (uri, possibly "").
Edge(depth, uri) == [depth |-> depth, uri |-> uri]

Edges == {Edge(d, "") : d \in 0..5} \cup {Edge(6, u) : u \in Uris \cup {""}}

\* The elements that follow the first one: the code never reads them.
LaterEdges == {Edge(6, "ipfs://xyz"), Edge(1, "")}

EdgeLists ==
    {<<>>} \cup
    UNION {{<<e>> \o rest : e \in Edges, rest \in [1..n -> LaterEdges]} :
              n \in 0..(MaxEdges - 1)}

\* The body of a 2xx response. links counts the links present on the way from
\* response to edges: response.data, .data, .profile,
\* .collectedCollectionsOrTokens, .edges; edges is the list when all five are.
Body(links, edges) == [links |-> links, edges |-> edges]

NoBody == Body(0, <<>>)

Bodies == {Body(l, <<>>) : l \in 0..4} \cup {Body(5, es) : es \in EdgeLists}

\* ------------------------------------------------------------ errors

NoError ==
    [name |-> "undefined", message |-> "", isAxios |-> FALSE,
     hasResponse |-> FALSE, status |-> 0, detail |-> NoText,
     retryAfter |-> NoText, hasRequest |-> FALSE, code |-> ""]

\* new Error("Invalid address provided"), line 103.
InvalidAddressError ==
    [NoError EXCEPT !.name = "Error", !.message = "Invalid address provided"]

\* What reading .media of an undefined or null node throws, line 149.
NodeTypeError ==
    [NoError EXCEPT !.name = "TypeError",
                    !.message = "Cannot read properties of undefined"]

\* axios rejects with a response whose status is not 2xx.
HttpError(status, detail, retryAfter) ==
    [NoError EXCEPT !.name = "AxiosError", !.isAxios = TRUE,
                    !.message = "Request failed with status code",
                    !.hasResponse = TRUE, !.hasRequest = TRUE,
                    !.status = status, !.detail = detail,
                    !.retryAfter = retryAfter, !.code = "ERR_BAD_RESPONSE"]

\* axios rejects with no response: the request was made (hasRequest) or was
\* never set up.
NetworkError(hasRequest, code) ==
    [NoError EXCEPT !.name = "AxiosError", !.isAxios = TRUE,
                    !.message = "Network Error",
                    !.hasRequest = hasRequest, !.code = code]

\* What the rejected promise of fetchFirstMintedArtwork carries.
NoThrown ==
    [message |-> "", hasAddress |-> FALSE, address |-> JsUndefined,
     cause |-> NoError]

\* new Error(`Failed to fetch first minted artwork for address ${address}:
\* ${lastError}`), lines 285-287.
FinalError(address, lastError) ==
    [message |-> "Failed to fetch first minted artwork for address",
     hasAddress |-> TRUE, address |-> address, cause |-> lastError]

\* new Error(`Rate limit exceeded after ${maxRetries + 1} attempts. ...`),
\* lines 204-208, thrown inside the catch block: it leaves the function as is.
RateLimitExceededError ==
    [NoThrown EXCEPT !.message = "Rate limit exceeded after"]

\* ------------------------------------------------ unwrapping a 2xx response

NoResult == [kind |-> "none", downloadableUri |-> "", address |-> JsUndefined]

Null == [NoResult EXCEPT !.kind = "null"]

Artwork(uri, address) ==
    [kind |-> "artwork", downloadableUri |-> uri, address |-> address]

Returns(v) == [kind |-> "return", value |-> v, error |-> NoError]

Throws(e) == [kind |-> "throw", value |-> NoResult, error |-> e]

\* firstEdge.node.media?.previewImage?.previewImage?.downloadableUri,
\* lines 148-149: .node is read of the element and .media of the node without
\* ?., the other links with it.
ReadUri(edge) ==
    IF edge.depth < 2 THEN Throws(NodeTypeError)
    ELSE IF edge.depth < 6 THEN Returns(NoResult)
    ELSE Returns(Artwork(edge.uri, JsUndefined))

Unwrap_lastEdge(body, address) ==
    IF body.links < 5 \/ Len(body.edges) = 0 THEN Returns(Null)
    ELSE LET read == ReadUri(body.edges[Len(body.edges)])
         IN  IF read.kind = "throw" THEN read
             ELSE IF read.value.kind = "none" \/ read.value.downloadableUri = ""
                  THEN Returns(Null)
                  ELSE Returns(Artwork(read.value.downloadableUri, address))

Unwrap_emptyThrows(body, address) ==
    IF body.links < 5 THEN Returns(Null)
    ELSE IF Len(body.edges) = 0 THEN Throws(NodeTypeError)
    ELSE LET read == ReadUri(body.edges[1])
         IN  IF read.kind = "throw" THEN read
             ELSE IF read.value.kind = "none" \/ read.value.downloadableUri = ""
                  THEN Returns(Null)
                  ELSE Returns(Artwork(read.value.downloadableUri, address))

\* Lines 131-161, the code after axios.post resolved: what the try block
\* returns or throws for the body of the response.
Unwrap(body, address) ==
    IF body.links < 5 THEN Returns(Null)
    ELSE IF Len(body.edges) = 0 THEN Returns(Null)
    ELSE LET read == ReadUri(body.edges[1])
         IN  IF read.kind = "throw" THEN read
             ELSE IF read.value.kind = "none" \/ read.value.downloadableUri = ""
                  THEN Returns(Null)
                  ELSE Returns(Artwork(read.value.downloadableUri, address))

\* ------------------------------------------------------- the catch block

Pow2_linear(n) == n + 1

\* Math.pow(2, n).
RECURSIVE Pow2(_)
Pow2(n) == IF n = 0 THEN 1 ELSE 2 * Pow2(n - 1)

CanRetry_inverted(attempt, maxRetries) == attempt > maxRetries

CanRetry_inclusive(attempt, maxRetries) == attempt <= maxRetries

\* attempt < maxRetries, the test before every backoff (lines 200, 217, 232,
\* 248, 260).
CanRetry(attempt, maxRetries) == attempt < maxRetries

RateLimitWait_headerFirst(error, attempt) ==
    IF TruthyText(error.retryAfter)
    THEN parseInt(error.retryAfter.chars) * 1000
    ELSE IF TruthyText(error.detail) /\ DetailMatches(error.detail.chars)
         THEN DetailMillis(error.detail.chars)
         ELSE Pow2(attempt) * 1000

\* waitTime of the 429 branch, lines 168-192.
RateLimitWait(error, attempt) ==
    LET backoff == Pow2(attempt) * 1000
        fromDetail ==
            IF TruthyText(error.detail) /\ DetailMatches(error.detail.chars)
            THEN DetailMillis(error.detail.chars)
            ELSE backoff
    IN  IF ~TruthyText(error.detail) /\ TruthyText(error.retryAfter)
        THEN parseInt(error.retryAfter.chars) * 1000
        ELSE fromDetail

Retry(waitTime) == [act |-> "retry", waitTime |-> waitTime, thrown |-> NoThrown]

Break == [act |-> "break", waitTime |-> 0, thrown |-> NoThrown]

Rethrow_asBreak(e) == Break

\* throw inside the catch block (line 204): the error leaves the function.
Rethrow(e) == [act |-> "throw", waitTime |-> 0, thrown |-> e]

HandleError_retryAll(error, attempt, maxRetries) ==
    IF CanRetry(attempt, maxRetries) THEN Retry(Pow2(attempt) * 1000) ELSE Break

\* The catch block, lines 162-280, after lastError = error: sleep and continue
\* (retry), break out of the loop, or throw out of the function.
HandleError(error, attempt, maxRetries) ==
    IF ~error.isAxios THEN Break
    ELSE IF error.hasResponse /\ error.status = 429 THEN
        IF CanRetry(attempt, maxRetries)
        THEN Retry(RateLimitWait(error, attempt))
        ELSE Rethrow(RateLimitExceededError)
    ELSE IF error.hasResponse /\ error.status = 403
            /\ CanRetry(attempt, maxRetries) THEN
        Retry(Pow2(attempt) * 2000)
    ELSE IF error.hasResponse THEN
        IF error.status >= 500 /\ CanRetry(attempt, maxRetries)
        THEN Retry(Pow2(attempt) * 1000)
        ELSE Break
    ELSE IF error.hasRequest THEN
        IF CanRetry(attempt, maxRetries)
        THEN Retry(Pow2(attempt) * 1000)
        ELSE Break
    ELSE IF error.code = "ECONNABORTED" THEN
        IF CanRetry(attempt, maxRetries)
        THEN Retry(Pow2(attempt) * 1000)
        ELSE Break
    ELSE Break

\* --------------------------------------------- one fetchFirstMintedArtwork call

NoResponse == [got |-> "none", body |-> NoBody, error |-> NoError]

Ok(body) == [got |-> "ok", body |-> body, error |-> NoError]

Failed(error) == [got |-> "error", body |-> NoBody, error |-> error]

\* The frame of a call: the parameters and locals of fetchFirstMintedArtwork,
\* where it is suspended (pc), and a record of what it did: posts counts its
\* axios.post calls, sleeps its backoff waits, gate and recheck hold what the
\* two checkRateLimit calls of the current attempt returned, response is the
\* last outcome of axios.post, all5xx says every outcome so far was a status
\* of 500 or more, all429 that every outcome so far was a status of 429.
NewFrame ==
    [pc |-> "idle", address |-> JsUndefined, maxRetries |-> 0, attempt |-> 0,
     lastError |-> NoError, wakeAt |-> 0, waitMs |-> 0,
     gate |-> "none", recheck |-> "none", posts |-> 0, sleeps |-> 0,
     response |-> NoResponse, all5xx |-> TRUE, all429 |-> TRUE,
     result |-> NoResult, thrown |-> NoThrown]

\* The loop condition of line 99.
LoopTest(attempt, maxRetries) == attempt <= maxRetries

\* The promise resolves with v (a return inside the try block).
Resolved(f, v) == [f EXCEPT !.pc = "resolved", !.result = v]

\* The promise rejects with e.
Rejected(f, e) == [f EXCEPT !.pc = "rejected", !.thrown = e]

\* The catch block run at time t for an error thrown in the try block of
\* frame f, up to its await or to the end of the function.
Catch(f, error, t) ==
    LET h  == HandleError(error, f.attempt, f.maxRetries)
        f1 == [f EXCEPT !.lastError = error]
    IN  CASE h.act = "retry" ->
                [f1 EXCEPT !.pc = "backoff", !.waitMs = h.waitTime,
                           !.wakeAt = sleep(h.waitTime, t), !.sleeps = @ + 1]
          [] h.act = "throw" -> Rejected(f1, h.thrown)
          [] OTHER -> Rejected(f1, FinalError(f1.address, f1.lastError))

\* Lines 131-280 run at time t when axios.post settles with outcome o.
AfterResponse(f, o, t) ==
    LET f1 == [f EXCEPT !.response = o,
                        !.all5xx = @ /\ o.got = "error"
                                     /\ o.error.hasResponse
                                     /\ o.error.status >= 500,
                        !.all429 = @ /\ o.got = "error"
                                     /\ o.error.hasResponse
                                     /\ o.error.status = 429]
    IN  IF o.got = "ok"
        THEN LET u == Unwrap(o.body, f.address)
             IN  IF u.kind = "return" THEN Resolved(f1, u.value)
                 ELSE Catch(f1, u.error, t)
        ELSE Catch(f1, o.error, t)

Iteration_ungated(c, f) ==
    /\ calls' = [calls EXCEPT ![c] =
                    IF ValidAddress(f.address)
                    THEN [f EXCEPT !.pc = "http", !.gate = "granted",
                                   !.recheck = "none", !.posts = @ + 1]
                    ELSE Catch(f, InvalidAddressError, now)]
    /\ postsInWindow' = IF ValidAddress(f.address)
                        THEN postsInWindow + 1 ELSE postsInWindow
    /\ UNCHANGED <<requestCount, lastRequestTime>>

\* One pass from the loop condition of line 99 to the first await of the
\* iteration, for caller c whose frame is f: the loop ends and the function
\* throws (lines 283-287), the address is refused (lines 102-104, then the
\* catch block), or checkRateLimit is called and the request is posted (line
\* 114) or the caller sleeps until the window ends (lines 107-109).
Iteration(c, f) ==
    IF ~LoopTest(f.attempt, f.maxRetries) THEN
        /\ calls' = [calls EXCEPT ![c] =
                        Rejected(f, FinalError(f.address, f.lastError))]
        /\ UNCHANGED <<requestCount, lastRequestTime, postsInWindow>>
    ELSE IF ~ValidAddress(f.address) THEN
        /\ calls' = [calls EXCEPT ![c] = Catch(f, InvalidAddressError, now)]
        /\ UNCHANGED <<requestCount, lastRequestTime, postsInWindow>>
    ELSE
        LET g == checkRateLimit(requestCount, lastRequestTime, now)
            posted == IF g.reset THEN 0 ELSE postsInWindow
        IN  /\ requestCount' = g.requestCount
            /\ lastRequestTime' = g.lastRequestTime
            /\ IF g.ret
               THEN /\ calls' = [calls EXCEPT ![c] =
                            [f EXCEPT !.pc = "http", !.gate = "granted",
                                      !.recheck = "none", !.posts = @ + 1]]
                    /\ postsInWindow' = posted + 1
               ELSE /\ calls' = [calls EXCEPT ![c] =
                            [f EXCEPT !.pc = "gateWait", !.gate = "denied",
                                      !.recheck = "none",
                                      !.wakeAt = sleep(timeToWait(g.lastRequestTime, now), now)]]
                    /\ postsInWindow' = posted

\* ---------------------------------------------------------------- inputs

Callers == 1..NumCallers

\* detail: "slow", without the pattern.
DetailPlain == <<"s", "l", "o", "w">>

\* detail: "try again after 2.5 seconds".
DetailAfter2500 == TryAgainAfter \o <<"2", ".", "5">> \o Seconds

\* detail: "retry again after 60 seconds."
DetailAfter60000 == <<"r", "e">> \o TryAgainAfter \o <<"6", "0">> \o Seconds \o <<".">>

\* What axios.post settles with: a 2xx response with any of the bodies, a
\* response with another status (a 429 with or without the two hints), or no
\* response at all.
Outcomes ==
    {Ok(b) : b \in Bodies}
    \cup {Failed(HttpError(st, NoText, NoText)) : st \in {400, 403, 404, 500, 503}}
    \cup {Failed(HttpError(429, d, h)) :
            d \in {NoText, Text(DetailPlain), Text(DetailAfter2500)},
            h \in {NoText, Text(<<"5">>)}}
    \cup {Failed(NetworkError(TRUE, "ERR_NETWORK")),
          Failed(NetworkError(TRUE, "ECONNABORTED")),
          Failed(NetworkError(FALSE, "ECONNABORTED")),
          Failed(NetworkError(FALSE, "ERR_BAD_OPTION"))}

\* The inputs of the concurrent callers.
ConcurrentAddresses == {JsString("0xA1"), JsString("")}

ConcurrentRetries == {0, 1}

ConcurrentOutcomes ==
    {Ok(Body(5, <<Edge(6, "ipfs://abc")>>)),
     Failed(HttpError(429, Text(DetailAfter60000), NoText))}

\* --------------------------------------------------------------- actions

\* fetchFirstMintedArtwork(a, m) is called: the call runs to its first await.
Call(c, a, m) ==
    /\ calls[c].pc = "idle"
    /\ Iteration(c, [NewFrame EXCEPT !.address = a, !.maxRetries = m])
    /\ UNCHANGED <<now, ret, grantLog, request>>

\* The sleep of line 109 is over: checkRateLimit is called again, its result is
\* dropped (line 110), and the request is posted (line 114).
GateWake(c) ==
    /\ calls[c].pc = "gateWait"
    /\ now >= calls[c].wakeAt
    /\ LET g == checkRateLimit(requestCount, lastRequestTime, now)
       IN  /\ requestCount' = g.requestCount
           /\ lastRequestTime' = g.lastRequestTime
           /\ postsInWindow' = (IF g.reset THEN 0 ELSE postsInWindow) + 1
           /\ calls' = [calls EXCEPT ![c] =
                  [@ EXCEPT !.pc = "http", !.posts = @ + 1,
                            !.recheck = IF g.ret THEN "granted" ELSE "denied"]]
    /\ UNCHANGED <<now, ret, grantLog, request>>

\* axios.post settles with outcome o: the rest of the try block or the catch
\* block runs.
Respond(c, o) ==
    /\ calls[c].pc = "http"
    /\ calls' = [calls EXCEPT ![c] = AfterResponse(calls[c], o, now)]
    /\ UNCHANGED <<now, requestCount, lastRequestTime, postsInWindow, ret, grantLog,
                   request>>

\* A backoff sleep is over: continue, attempt++ and the next iteration.
BackoffWake(c) ==
    /\ calls[c].pc = "backoff"
    /\ now >= calls[c].wakeAt
    /\ Iteration(c, [calls[c] EXCEPT !.attempt = @ + 1])
    /\ UNCHANGED <<now, ret, grantLog, request>>

\* The caller has the settled promise and may call again.
Await(c) ==
    /\ calls[c].pc \in {"resolved", "rejected"}
    /\ calls' = [calls EXCEPT ![c] = NewFrame]
    /\ UNCHANGED <<now, requestCount, lastRequestTime, postsInWindow, ret, grantLog,
                   request>>

\* The grants that still count: those of the last RATE_LIMIT_WINDOW ms and
\* those of the current window.
Recent(log, lrt, t) ==
    SelectSeq(log, LAMBDA g : g > t - RATE_LIMIT_WINDOW \/ g >= lrt)

\* The instants the clock is read at: when a sleep ends, when the window is
\* RATE_LIMIT_WINDOW ms old, and one millisecond later.
Instants ==
    {calls[c].wakeAt : c \in {d \in Callers : calls[d].pc \in {"gateWait", "backoff"}}}
    \cup {lastRequestTime + RATE_LIMIT_WINDOW, lastRequestTime + RATE_LIMIT_WINDOW + 1}

\* Time passes.
Tick ==
    /\ \E t \in Instants : now < t /\ t <= MaxNow /\ now' = t
    /\ grantLog' = Recent(grantLog, lastRequestTime, now')
    /\ UNCHANGED <<requestCount, lastRequestTime, calls, postsInWindow, ret, request>>

\* checkRateLimit() is called on its own, as the first statement of some
\* attempt would.
LimiterCall ==
    LET g == checkRateLimit(requestCount, lastRequestTime, now)
    IN  /\ requestCount' = g.requestCount
        /\ lastRequestTime' = g.lastRequestTime
        /\ ret' = IF g.ret THEN "true" ELSE "false"
        /\ grantLog' = Recent(IF g.ret THEN Append(grantLog, now) ELSE grantLog,
                              g.lastRequestTime, now)
        /\ postsInWindow' = IF g.reset THEN 0 ELSE postsInWindow
        /\ UNCHANGED <<now, calls, request>>

\* ------------------------------------------ the HTTP handler (src/api/index.ts)

\* res.status(400).json({error: "Valid Ethereum address is required"}).
BadRequest == [status |-> 400, type |-> "application/json"]

\* res.status(500).json({error: "Internal server error"}).
InternalServerError == [status |-> 500, type |-> "application/json"]

\* res.send(buffer) with Content-Type: image/png.
PngImage == [status |-> 200, type |-> "image/png"]

\* The frame of handler: where it is suspended (pc), req.query.address, how
\* far the font and the template got (setup), usePlaceholder and artworkImage,
\* and a record of what it did: fetchCalls counts its fetchFirstMintedArtwork
\* calls, fetched holds what the call settled with, responses the responses
\* it sent.
NoRequest ==
    [pc |-> "idle", address |-> JsUndefined, setup |-> "none",
     fetchCalls |-> 0, fetched |-> "none", usePlaceholder |-> FALSE,
     artworkImage |-> "null", responses |-> <<>>]

\* A response is sent and handler returns.
Send(r, response) ==
    [r EXCEPT !.pc = "done", !.responses = Append(@, response)]

UsePlaceholder_never(v) == FALSE

\* The else branch of line 46: firstMintedArtwork is null or has no
\* downloadableUri.
UsePlaceholder(v) == ~(v.kind = "artwork" /\ v.downloadableUri # "")

\* req.query.address: absent, empty, a string, or an array of strings.
QueryAddresses == {JsUndefined, JsString(""), JsString("0xA1"), JsArray}

\* What axios.post settles with while the handler waits.
HandlerOutcomes ==
    {Ok(Body(5, <<>>)), Ok(Body(5, <<Edge(6, "ipfs://abc")>>)),
     Ok(Body(5, <<Edge(1, "")>>)),
     Failed(HttpError(404, NoText, NoText)),
     Failed(HttpError(429, NoText, NoText)),
     Failed(HttpError(503, NoText, NoText))}

\* Lines 15-30: a request arrives with address a; registerFont returns
\* (font) or throws; the handler answers 400, answers 500 from its catch
\* block, or awaits the template image.
Handle(a, font) ==
    /\ request.pc = "idle"
    /\ request' =
          LET r == [request EXCEPT !.address = a]
          IN  IF ~Truthy(a) THEN Send(r, BadRequest)
              ELSE IF ~font
                   THEN Send([r EXCEPT !.setup = "fontFailed"], InternalServerError)
                   ELSE [r EXCEPT !.pc = "template", !.setup = "font"]
    /\ UNCHANGED <<now, requestCount, lastRequestTime, calls, postsInWindow, ret,
                   grantLog>>

\* Lines 30-33: loadImage(templatePath) settles; if it resolved (ok),
\* fetchFirstMintedArtwork(address) is called, with the default maxRetries,
\* and runs to its first await; if it rejected the catch block answers 500.
TemplateLoaded(ok) ==
    /\ request.pc = "template"
    /\ IF ok
       THEN /\ Iteration(1, [NewFrame EXCEPT !.address = request.address,
                                              !.maxRetries = DefaultMaxRetries])
            /\ request' = [request EXCEPT !.pc = "fetch", !.setup = "ok",
                                          !.fetchCalls = @ + 1]
       ELSE /\ request' = Send([request EXCEPT !.setup = "templateFailed"],
                               InternalServerError)
            /\ UNCHANGED <<requestCount, lastRequestTime, calls, postsInWindow>>
    /\ UNCHANGED <<now, ret, grantLog>>

\* Lines 33-62: the promise of fetchFirstMintedArtwork has settled; a
\* rejection goes to the catch block (500), a result with a downloadableUri
\* to loadImage of it, null to loadImage of the placeholder.
FetchSettled ==
    /\ request.pc = "fetch"
    /\ calls[1].pc \in {"resolved", "rejected"}
    /\ request' =
          LET f == calls[1]
              r == [request EXCEPT !.fetched = IF f.pc = "rejected"
                                               THEN "rejected" ELSE f.result.kind]
          IN  IF f.pc = "rejected" THEN Send(r, InternalServerError)
              ELSE IF UsePlaceholder(f.result)
                   THEN [r EXCEPT !.pc = "placeholder", !.usePlaceholder = TRUE]
                   ELSE [r EXCEPT !.pc = "artwork"]
    /\ UNCHANGED <<now, requestCount, lastRequestTime, calls, postsInWindow, ret,
                   grantLog>>

\* Lines 47-62 and 71-106: loadImage(downloadableUri) settles; the artwork is
\* drawn and the PNG sent, or the placeholder is loaded instead.
ArtworkLoaded(ok) ==
    /\ request.pc = "artwork"
    /\ request' =
          IF ok THEN Send([request EXCEPT !.artworkImage = "artwork"], PngImage)
          ELSE [request EXCEPT !.pc = "placeholder", !.usePlaceholder = TRUE]
    /\ UNCHANGED <<now, requestCount, lastRequestTime, calls, postsInWindow, ret,
                   grantLog>>

\* Lines 60-106: loadImage of the placeholder settles; with or without it
\* the canvas is encoded and the PNG sent.
PlaceholderLoaded(ok) ==
    /\ request.pc = "placeholder"
    /\ request' =
          Send([request EXCEPT !.artworkImage = IF ok THEN "placeholder" ELSE "null"],
               PngImage)
    /\ UNCHANGED <<now, requestCount, lastRequestTime, calls, postsInWindow, ret,
                   grantLog>>

\* -------------------------------------------------------- specifications

\* The module as loaded (lines 57-58), no call made yet.
InitLoaded ==
    /\ now = StartTime
    /\ requestCount = 0
    /\ lastRequestTime = 0
    /\ calls = [c \in Callers |-> NewFrame]
    /\ postsInWindow = 0
    /\ ret = "none"
    /\ grantLog = <<>>
    /\ request = NoRequest

\* The rate limiter when a call is made: as loaded, or after earlier calls
\* posted n requests in the window that began at StartTime (states that
\* SpecConcurrent reaches from InitLoaded with every caller idle).
EarlierRequests == {0, MAX_REQUESTS_PER_WINDOW - 1, MAX_REQUESTS_PER_WINDOW}

Init ==
    /\ now = StartTime
    /\ \E n \in EarlierRequests :
          /\ requestCount = n
          /\ lastRequestTime = IF n = 0 THEN 0 ELSE StartTime
          /\ postsInWindow = n
    /\ calls = [c \in Callers |-> NewFrame]
    /\ ret = "none"
    /\ grantLog = <<>>
    /\ request = NoRequest

\* One call of fetchFirstMintedArtwork, with every input and every outcome.
Next ==
    \/ \E a \in Addresses, m \in 0..MaxRetriesBound : Call(1, a, m)
    \/ GateWake(1)
    \/ \E o \in Outcomes : Respond(1, o)
    \/ BackoffWake(1)
    \/ Tick

Spec == Init /\ [][Next]_vars

\* One outcome of axios.post for each way the catch block classifies it, and
\* one success.
RetryOutcomes ==
    {Ok(Body(5, <<Edge(6, "ipfs://abc")>>)),
     Failed(HttpError(429, NoText, NoText)),
     Failed(HttpError(429, NoText, Text(<<"5">>))),
     Failed(HttpError(429, Text(DetailAfter2500), NoText)),
     Failed(HttpError(403, NoText, NoText)),
     Failed(HttpError(404, NoText, NoText)),
     Failed(HttpError(503, NoText, NoText)),
     Failed(NetworkError(TRUE, "ERR_NETWORK")),
     Failed(NetworkError(TRUE, "ECONNABORTED")),
     Failed(NetworkError(FALSE, "ECONNABORTED"))}

NextRetry ==
    \/ \E a \in Addresses, m \in 0..MaxRetriesBound : Call(1, a, m)
    \/ GateWake(1)
    \/ \E o \in RetryOutcomes : Respond(1, o)
    \/ BackoffWake(1)
    \/ Tick

\* One call on Node's event loop: axios.post settles (with a response, an
\* error, or its 10 s timeout), a timer that is due fires, and time passes.
SpecFair ==
    /\ Init
    /\ [][NextRetry]_vars
    /\ WF_vars(\E o \in RetryOutcomes : Respond(1, o))
    /\ WF_vars(GateWake(1))
    /\ WF_vars(BackoffWake(1))
    /\ WF_vars(Tick)

\* Callers that call again and again, concurrently, from the module as loaded.
NextConcurrent ==
    \/ \E c \in Callers, a \in ConcurrentAddresses, m \in ConcurrentRetries :
          Call(c, a, m)
    \/ \E c \in Callers : GateWake(c)
    \/ \E c \in Callers, o \in ConcurrentOutcomes : Respond(c, o)
    \/ \E c \in Callers : BackoffWake(c)
    \/ \E c \in Callers : Await(c)
    \/ Tick

SpecConcurrent == InitLoaded /\ [][NextConcurrent]_vars

\* The rate limiter alone: calls of checkRateLimit at any instant.
NextLimiter == LimiterCall \/ Tick

SpecLimiter == InitLoaded /\ [][NextLimiter]_vars

\* One request to the handler, with the outcomes of its font, its images and
\* its fetch.
NextHandler ==
    \/ \E a \in QueryAddresses, font \in BOOLEAN : Handle(a, font)
    \/ \E ok \in BOOLEAN : TemplateLoaded(ok)
    \/ GateWake(1)
    \/ \E o \in HandlerOutcomes : Respond(1, o)
    \/ BackoffWake(1)
    \/ FetchSettled
    \/ \E ok \in BOOLEAN : ArtworkLoaded(ok)
    \/ \E ok \in BOOLEAN : PlaceholderLoaded(ok)
    \/ Tick

SpecHandler == Init /\ [][NextHandler]_vars

\* ---------------------------------------------------------------- claims

Settled(f) == f.pc \in {"resolved", "rejected"}

\* C1: one call posts at most maxRetries + 1 requests, and a call whose every
\* attempt was answered with a status of 500 or more posts exactly
\* maxRetries + 1 requests and then rejects.
C1_AttemptBound ==
    \A c \in Callers :
        LET f == calls[c]
        IN  /\ f.posts <= f.maxRetries + 1
            /\ (Settled(f) /\ f.posts >= 1 /\ f.all5xx)
                  => (f.pc = "rejected" /\ f.posts = f.maxRetries + 1)

\* The default maxRetries: four requests, each answered 5xx, then the rejection.
C1_Witness ==
    /\ calls[1].pc = "rejected"
    /\ calls[1].all5xx
    /\ calls[1].maxRetries = DefaultMaxRetries
    /\ calls[1].posts = DefaultMaxRetries + 1
    /\ calls[1].sleeps = DefaultMaxRetries

\* C6: a call with an address that is empty or not a string rejects in the
\* step that makes it, whatever maxRetries is: nothing is posted, nothing is
\* slept, checkRateLimit is not called, and requestCount and lastRequestTime
\* keep their values.
C6_InvalidAddressFailsFast ==
    [][\A c \in Callers :
          (calls[c].pc = "idle" /\ calls'[c].pc # "idle"
              /\ ~(calls'[c].address.type = "string" /\ calls'[c].address.str # ""))
          => /\ calls'[c].pc = "rejected"
             /\ calls'[c].thrown.cause = InvalidAddressError
             /\ calls'[c].posts = 0
             /\ calls'[c].sleeps = 0
             /\ calls'[c].gate = "none"
             /\ requestCount' = requestCount
             /\ lastRequestTime' = lastRequestTime
             /\ postsInWindow' = postsInWindow]_vars

\* The empty string was refused with the default maxRetries while the quota
\* still had room.
C6_Witness ==
    /\ calls[1].pc = "rejected"
    /\ calls[1].address = JsString("")
    /\ calls[1].maxRetries = DefaultMaxRetries
    /\ calls[1].posts = 0
    /\ requestCount = MAX_REQUESTS_PER_WINDOW - 1

EdgesMissing(b) == b.links < 5 \/ b.edges = <<>>

\* C7: a 2xx response whose edges are absent or empty resolves the call to
\* null on that attempt: it does not reject, posts nothing more and does not
\* sleep again.
C7_NoEdgesIsNull ==
    \A c \in Callers :
        LET f == calls[c]
        IN  (f.response.got = "ok" /\ EdgesMissing(f.response.body))
            => /\ f.pc = "resolved"
               /\ f.result = Null
               /\ f.posts = f.attempt + 1
               /\ f.sleeps = f.attempt

\* An empty edges list, answered to a retry.
C7_Witness ==
    /\ calls[1].pc = "resolved"
    /\ calls[1].response = Ok(Body(5, <<>>))
    /\ calls[1].attempt = 1

\* C8 as claimed: a 2xx response with any link of the chain missing, the node
\* of the first edge included, resolves the call to null.
C8_MissingLinkIsNull ==
    \A c \in Callers :
        LET f == calls[c]
            b == f.response.body
        IN  (f.response.got = "ok"
                /\ (EdgesMissing(b) \/ b.edges[1].depth < 6))
            => (f.pc = "resolved" /\ f.result = Null)

\* C9: a 2xx response whose first edge carries a non-empty downloadableUri u
\* resolves the call to {downloadableUri: u, address}: the first edge's URI
\* and the address the call was given.
C9_FirstEdgeUri ==
    \A c \in Callers :
        LET f == calls[c]
            b == f.response.body
        IN  (f.response.got = "ok" /\ ~EdgesMissing(b)
                /\ b.edges[1].depth = 6 /\ b.edges[1].uri # "")
            => /\ f.pc = "resolved"
               /\ f.result.kind = "artwork"
               /\ f.result.downloadableUri = b.edges[1].uri
               /\ f.result.address = f.address
               /\ f.address.type = "string" /\ f.address.str # ""

\* Two edges with different URIs: the call resolved with the first.
C9_Witness ==
    /\ calls[1].pc = "resolved"
    /\ calls[1].response.got = "ok"
    /\ Len(calls[1].response.body.edges) = 2
    /\ calls[1].response.body.edges[1] = Edge(6, "ipfs://abc")
    /\ calls[1].response.body.edges[2] = Edge(6, "ipfs://xyz")
    /\ calls[1].result = Artwork("ipfs://abc", JsString("0xB2"))

\* C10 as claimed: a 2xx response to attempt k >= 1, which is reached only
\* through k retryable failures, resolves the call (the case k = 0 is C8's).
C10_SuccessAfterRetries ==
    \A c \in Callers :
        LET f == calls[c]
        IN  (f.response.got = "ok" /\ f.attempt >= 1 /\ f.attempt <= f.maxRetries)
            => (f.pc = "resolved" /\ f.result.kind \in {"null", "artwork"})

\* The grants recorded since the window was last reset.
InWindow(log, lrt) == Cardinality({i \in 1..Len(log) : log[i] >= lrt})

\* The grants recorded in the RATE_LIMIT_WINDOW ms that end now.
InLastWindow(log, t) ==
    Cardinality({i \in 1..Len(log) : log[i] > t - RATE_LIMIT_WINDOW})

\* C2 as claimed: no more than MAX_REQUESTS_PER_WINDOW requests are posted
\* between two resets of the window, and a request is posted only in an
\* attempt whose gate granted it.
C2_PostsWithinQuota ==
    /\ postsInWindow <= MAX_REQUESTS_PER_WINDOW
    /\ \A c \in Callers :
          calls[c].pc = "http"
              => (calls[c].gate = "granted" \/ calls[c].recheck = "granted")

\* C3 as claimed: the checkRateLimit call made after the sleep of line 109
\* returns true.
C3_RecheckGranted == \A c \in Callers : calls[c].recheck # "denied"

\* C4: a checkRateLimit call made while the window has not passed returns
\* true exactly when fewer than MAX_REQUESTS_PER_WINDOW calls of this window
\* returned true before it (the first 30 do, the 31st does not), and a call
\* made once now - lastRequestTime exceeds RATE_LIMIT_WINDOW returns true and
\* leaves requestCount = 1 and lastRequestTime = now.
C4_QuotaPerWindow ==
    [][now' = now =>
          IF now - lastRequestTime > RATE_LIMIT_WINDOW
          THEN ret' = "true" /\ requestCount' = 1 /\ lastRequestTime' = now
          ELSE /\ ret' = IF InWindow(grantLog, lastRequestTime)
                              < MAX_REQUESTS_PER_WINDOW
                         THEN "true" ELSE "false"
               /\ lastRequestTime' = lastRequestTime
               /\ requestCount' = InWindow(grantLog', lastRequestTime)]_vars

\* Thirty calls of one window returned true and the 31st false; the window is
\* the second one, opened by a call made after the first had passed.
C4_Witness ==
    /\ ret = "false"
    /\ requestCount = MAX_REQUESTS_PER_WINDOW
    /\ InWindow(grantLog, lastRequestTime) = MAX_REQUESTS_PER_WINDOW
    /\ lastRequestTime = StartTime + RATE_LIMIT_WINDOW + 1

\* C5 as claimed: in any interval of RATE_LIMIT_WINDOW ms, here the one that
\* ends now, checkRateLimit returns true at most MAX_REQUESTS_PER_WINDOW times.
C5_RollingWindow == InLastWindow(grantLog, now) <= MAX_REQUESTS_PER_WINDOW

\* C5 as amended: between two resets of the window checkRateLimit returns
\* true at most MAX_REQUESTS_PER_WINDOW times.
C5_FixedWindow == InWindow(grantLog, lastRequestTime) <= MAX_REQUESTS_PER_WINDOW

\* A full window right after grants of the window before it: more than the
\* quota within RATE_LIMIT_WINDOW ms, the quota within the window.
C5_Witness ==
    /\ InWindow(grantLog, lastRequestTime) = MAX_REQUESTS_PER_WINDOW
    /\ InLastWindow(grantLog, now) > MAX_REQUESTS_PER_WINDOW

\* The frame sleeps the backoff that followed a 429 response.
After429(f) ==
    /\ f.pc = "backoff"
    /\ f.response.got = "error"
    /\ f.response.error.hasResponse
    /\ f.response.error.status = 429

\* C11: after a 429 whose detail holds "try again after N seconds" the wait
\* is N * 1000 ms (2500 for "2.5", 60000 for "60"), whatever the attempt and
\* whether or not the response has a Retry-After header.
C11_DetailWait ==
    \A c \in Callers :
        LET f == calls[c]
            d == f.response.error.detail
        IN  After429(f)
            => /\ d = Text(DetailAfter2500) => f.waitMs = 2500
               /\ d = Text(DetailAfter60000) => f.waitMs = 60000

\* "try again after 2.5 seconds" with Retry-After: 5, answered to the third
\* attempt: the wait is 2500 ms, not 5000 and not 4000.
C11_Witness ==
    /\ After429(calls[1])
    /\ calls[1].attempt = 2
    /\ calls[1].response.error.detail = Text(DetailAfter2500)
    /\ calls[1].response.error.retryAfter = Text(<<"5">>)
    /\ calls[1].waitMs = 2500

\* C12 as claimed: after a 429 whose detail is absent or holds no "try again
\* after N seconds", the wait is the Retry-After header's seconds * 1000 when
\* the header is there (5000 for "5"), and 2^attempt * 1000 only when it is not.
C12_HeaderThenBackoff ==
    \A c \in Callers :
        LET f == calls[c]
            e == f.response.error
        IN  (After429(f) /\ e.detail \in {NoText, Text(DetailPlain)})
            => f.waitMs = IF e.retryAfter = Text(<<"5">>) THEN 5000
                          ELSE Pow2(f.attempt) * 1000

\* C13 as claimed: whatever made the call reject, the error it rejects with
\* has the address of the call in its message and wraps the error of the last
\* attempt.
C13_RejectionNamesAddress ==
    \A c \in Callers :
        LET f == calls[c]
        IN  f.pc = "rejected"
            => /\ f.thrown.hasAddress
               /\ f.thrown.address = f.address
               /\ f.thrown.cause = f.lastError
               /\ f.thrown.cause # NoError

\* The error of a rejection is the one of line 204.
RateLimitExceeded(f) ==
    f.pc = "rejected" /\ f.thrown.message = RateLimitExceededError.message

\* C14: a call whose every attempt was answered 429 sleeps and retries while
\* attempt < maxRetries and rejects on attempt = maxRetries, after
\* maxRetries + 1 requests, with the "Rate limit exceeded" error; a call that
\* rejects after another last answer (5xx, no response, timeout, ...) rejects
\* with another error.
C14_RateLimitExhaustion ==
    \A c \in Callers :
        LET f == calls[c]
        IN  /\ (f.all429 /\ f.posts >= 1 /\ f.pc \in {"backoff", "rejected"})
                  => IF f.attempt < f.maxRetries
                     THEN f.pc = "backoff" /\ f.sleeps = f.attempt + 1
                     ELSE /\ RateLimitExceeded(f)
                          /\ f.attempt = f.maxRetries
                          /\ f.posts = f.maxRetries + 1
            /\ (f.pc = "rejected" /\ f.lastError.status # 429)
                  => ~RateLimitExceeded(f)

\* The default maxRetries: four requests, each answered 429, three sleeps,
\* then the rejection.
C14_Witness ==
    /\ RateLimitExceeded(calls[1])
    /\ calls[1].all429
    /\ calls[1].maxRetries = DefaultMaxRetries
    /\ calls[1].posts = DefaultMaxRetries + 1
    /\ calls[1].sleeps = DefaultMaxRetries

\* What C15 says of the responses: one response per request, sent when the
\* handler returns; 400 and no fetchFirstMintedArtwork call when address is
\* missing; a PNG by the placeholder path after a null result or a failed
\* artwork load; 500 after a rejected call.
HandlerResponses(r) ==
    /\ Len(r.responses) <= 1
    /\ r.pc = "done" <=> Len(r.responses) = 1
    /\ (r.pc # "idle" /\ ~Truthy(r.address))
          => (r.responses = <<BadRequest>> /\ r.fetchCalls = 0)
    /\ (r.pc = "done" /\ r.fetched = "null")
          => (r.usePlaceholder /\ r.responses = <<PngImage>>)
    /\ (r.pc = "done" /\ r.fetched = "artwork" /\ r.artworkImage # "artwork")
          => (r.usePlaceholder /\ r.responses = <<PngImage>>)
    /\ (r.pc = "done" /\ r.fetched = "rejected")
          => r.responses = <<InternalServerError>>
    /\ (r.fetched = "rejected" <=> (r.pc = "done" /\ calls[1].pc = "rejected"))

\* C15 as claimed: the responses above, and a request with an address has
\* called fetchFirstMintedArtwork exactly once when it is answered.
C15_FetchedExactlyOnce ==
    /\ HandlerResponses(request)
    /\ (request.pc = "done" /\ Truthy(request.address))
          => request.fetchCalls = 1

\* C15 as amended: the responses above, and a request with an address has
\* called fetchFirstMintedArtwork exactly once when it is answered if the
\* font and the template image loaded, and not at all, answering 500, if one
\* of them failed.
C15_FetchedOnceAfterSetup ==
    /\ HandlerResponses(request)
    /\ (request.pc = "done" /\ Truthy(request.address))
          => IF request.setup = "ok"
             THEN request.fetchCalls = 1
             ELSE /\ request.setup \in {"fontFailed", "templateFailed"}
                  /\ request.fetchCalls = 0
                  /\ request.responses = <<InternalServerError>>

\* The call resolved to null on its second attempt, the placeholder did not
\* load either, and the request was answered with the PNG.
C15_Witness ==
    /\ request.pc = "done"
    /\ request.fetchCalls = 1
    /\ request.fetched = "null"
    /\ calls[1].pc = "resolved"
    /\ calls[1].posts = 2
    /\ request.usePlaceholder
    /\ request.artworkImage = "null"
    /\ request.responses = <<PngImage>>

\* The waits of attempts 0, 1, 2 for a base of one second.
FirstWaits == <<1000, 2000, 4000>>

\* C16: the backoff slept after failed attempt k < maxRetries is 2^k * 2000 ms
\* after a 403 and 2^k * 1000 ms after a status of 500 or more, after a
\* request that got no response and after a timeout: 2000, 4000, 8000 and
\* 1000, 2000, 4000 for k = 0, 1, 2.
C16_BackoffWaits ==
    \A c \in Callers :
        LET f == calls[c]
            e == f.response.error
            base == IF e.hasResponse /\ e.status = 403 THEN 2000 ELSE 1000
        IN  (/\ f.pc = "backoff"
             /\ f.response.got = "error"
             /\ e.isAxios
             /\ \/ e.hasResponse /\ (e.status = 403 \/ e.status >= 500)
                \/ ~e.hasResponse /\ (e.hasRequest \/ e.code = "ECONNABORTED"))
            => /\ f.attempt < f.maxRetries
               /\ f.waitMs = Pow2(f.attempt) * base
               /\ f.attempt <= 2
                     => f.waitMs = FirstWaits[f.attempt + 1] * (base \div 1000)
               /\ f.wakeAt - f.waitMs <= now

\* The third 403 in a row: the call sleeps 8000 ms.
C16_Witness ==
    /\ calls[1].pc = "backoff"
    /\ calls[1].attempt = 2
    /\ calls[1].response = Failed(HttpError(403, NoText, NoText))
    /\ calls[1].lastError.status = 403
    /\ calls[1].waitMs = 8000

\* An error of none of the retried classes: not 429, not 403, not a status of
\* 500 or more, not a request without response, not a timeout.
NonRetryable(e) ==
    \/ ~e.isAxios
    \/ e.hasResponse /\ e.status \notin {429, 403} /\ e.status < 500
    \/ ~e.hasResponse /\ ~e.hasRequest /\ e.code # "ECONNABORTED"

\* C17: an error of none of the retried classes (a status such as 400 or
\* 404, an error that is not the HTTP client's) ends the call on the attempt
\* it occurs in, whatever maxRetries is: the call rejects with that error
\* wrapped, posts nothing after it and does not sleep after it.
C17_NonRetryableIsTerminal ==
    \A c \in Callers :
        LET f == calls[c]
        IN  (f.lastError # NoError /\ NonRetryable(f.lastError))
            => /\ f.pc = "rejected"
               /\ f.thrown = FinalError(f.address, f.lastError)
               /\ f.sleeps = f.attempt
               /\ f.posts = IF f.lastError = InvalidAddressError
                            THEN 0 ELSE f.attempt + 1

\* A 404 answered to the second attempt of a call with the default
\* maxRetries: rejected there, two requests and one sleep in all.
C17_Witness ==
    /\ calls[1].pc = "rejected"
    /\ calls[1].response = Failed(HttpError(404, NoText, NoText))
    /\ calls[1].maxRetries = DefaultMaxRetries
    /\ calls[1].attempt = 1
    /\ calls[1].posts = 2
    /\ calls[1].sleeps = 1

\* C18: every attempt of a call, the first and every retry, calls
\* checkRateLimit before it posts: a step that posts right after the loop
\* test is one whose checkRateLimit call returned true and counted the request
\* (requestCount is one more than before, or 1 in a new window), a step that
\* ends a backoff starts attempt k + 1 at the gate, and the step that handles
\* the answer of a request, failed or not, leaves requestCount and
\* lastRequestTime as they are.
C18_GateBeforeEveryPost ==
    [][\A c \in Callers :
          LET f == calls[c]
              g == calls'[c]
              counted == (IF WindowPassed(lastRequestTime, now)
                          THEN 0 ELSE requestCount) + 1
          IN  /\ (f.pc \in {"idle", "backoff"} /\ g.posts # f.posts)
                    => /\ g.posts = f.posts + 1
                       /\ g.pc = "http"
                       /\ g.gate = "granted"
                       /\ requestCount' = counted
                       /\ counted <= MAX_REQUESTS_PER_WINDOW
              /\ (f.pc = "backoff" /\ g.pc # "backoff")
                    => /\ g.attempt = f.attempt + 1
                       /\ \/ g.pc = "http" /\ g.posts = f.posts + 1
                          \/ g.pc = "gateWait" /\ g.gate = "denied"
                                /\ g.posts = f.posts
                                /\ requestCount' = MAX_REQUESTS_PER_WINDOW
              /\ (f.pc = "gateWait" /\ g.pc # "gateWait")
                    => /\ g.posts = f.posts + 1
                       /\ g.recheck \in {"granted", "denied"}
                       /\ g.recheck = "granted" => requestCount' = counted
              /\ (f.pc = "http" /\ g.pc # "http")
                    => /\ g.posts = f.posts
                       /\ requestCount' = requestCount
                       /\ lastRequestTime' = lastRequestTime]_vars

\* The second attempt of a call was granted and counted like the first, and
\* failed like the first: both units stay counted while the call sleeps.
C18_Witness ==
    /\ calls[1].pc = "backoff"
    /\ calls[1].attempt = 1
    /\ calls[1].gate = "granted"
    /\ calls[1].posts = 2
    /\ requestCount = 2
    /\ lastRequestTime = StartTime

\* requestCount and lastRequestTime are after the step what they were before.
LimiterUntouched ==
    requestCount' = requestCount /\ lastRequestTime' = lastRequestTime

\* C19: a checkRateLimit call that returns false, at the gate of an attempt
\* or after the sleep that follows a refusal, leaves requestCount and
\* lastRequestTime as they were, and the only steps of a call that change
\* either are those in which a checkRateLimit call returned true.
C19_RefusalChangesNothing ==
    [][/\ \A c \in Callers :
             LET f == calls[c]
                 g == calls'[c]
             IN  /\ (f.pc \in {"idle", "backoff"} /\ g.pc = "gateWait")
                       => (g.gate = "denied" /\ LimiterUntouched)
                 /\ (f.pc = "gateWait" /\ g.recheck = "denied")
                       => LimiterUntouched
                 /\ (f.pc = "http" /\ g.pc # "http") => LimiterUntouched
                 /\ (g.pc \in {"rejected", "idle"} /\ g # f) => LimiterUntouched
       /\ ~LimiterUntouched
             => \E c \in Callers :
                   LET f == calls[c]
                       g == calls'[c]
                   IN  \/ /\ f.pc \in {"idle", "backoff"}
                          /\ g.pc = "http" /\ g.gate = "granted"
                       \/ /\ f.pc = "gateWait"
                          /\ g.pc = "http" /\ g.recheck = "granted"]_vars

\* A call was refused at the gate of a full window and refused again after its
\* sleep, at the last millisecond of the window: the two variables are what
\* they were before the call.
C19_Witness ==
    /\ calls[1].gate = "denied"
    /\ calls[1].recheck = "denied"
    /\ requestCount = MAX_REQUESTS_PER_WINDOW
    /\ lastRequestTime = StartTime
    /\ now = StartTime + RATE_LIMIT_WINDOW

\* The call has asked the gate in its current attempt and is not answered yet.
InFlight(f) == f.pc \in {"http", "gateWait"}

\* C20 as claimed: two calls in flight together race past the quota test:
\* when both asked the gate of one window and the window is full, neither was
\* refused (both were granted, and requestCount went past
\* MAX_REQUESTS_PER_WINDOW).
C20_RacesPastQuota ==
    \A c, d \in Callers :
        (/\ c # d
         /\ InFlight(calls[c]) /\ InFlight(calls[d])
         /\ calls[c].recheck = "none" /\ calls[d].recheck = "none"
         /\ requestCount >= MAX_REQUESTS_PER_WINDOW
         /\ calls[c].gate = "granted")
        => calls[d].gate = "granted"

\* C20 as amended: whatever the interleaving of the concurrent callers,
\* requestCount never exceeds MAX_REQUESTS_PER_WINDOW, and never exceeds the
\* number of requests posted since the window was reset.
C20_NeverPastQuota ==
    /\ requestCount \in 0..MAX_REQUESTS_PER_WINDOW
    /\ requestCount <= postsInWindow

\* Two calls in flight at the instant the window opened, with the window
\* full: one was granted the last unit, the other was refused.
C20_Witness ==
    /\ requestCount = MAX_REQUESTS_PER_WINDOW
    /\ now = lastRequestTime
    /\ calls[1].pc = "http" /\ calls[1].gate = "granted"
    /\ calls[2].pc = "gateWait" /\ calls[2].gate = "denied"

\* C21: no backoff follows the last attempt: a call sleeps a backoff only
\* while attempt < maxRetries, so it has slept attempt backoffs when it posts
\* or settles and at most maxRetries in all; a call whose attempt maxRetries
\* was answered is settled in that step; and a call that was made settles
\* once its requests are answered and its timers have fired.
C21_NoBackoffAfterLastAttempt ==
    /\ [](\A c \in Callers :
            LET f == calls[c]
            IN  /\ f.sleeps <= f.maxRetries
                /\ f.pc = "backoff"
                      => (f.attempt < f.maxRetries /\ f.sleeps = f.attempt + 1)
                /\ f.pc # "backoff" => f.sleeps = f.attempt
                /\ (f.attempt = f.maxRetries /\ f.posts = f.attempt + 1
                        /\ f.pc # "http")
                      => Settled(f))
    /\ (calls[1].pc # "idle") ~> Settled(calls[1])

\* The default maxRetries, every attempt answered 403: three backoffs, and
\* the fourth answer rejects the call where it is.
C21_Witness ==
    /\ calls[1].pc = "rejected"
    /\ calls[1].maxRetries = DefaultMaxRetries
    /\ calls[1].attempt = DefaultMaxRetries
    /\ calls[1].lastError.status = 403
    /\ calls[1].waitMs = 8000
    /\ calls[1].sleeps = DefaultMaxRetries
    /\ calls[1].posts = DefaultMaxRetries + 1

====
